---------------------------- MODULE Spec2Model ----------------------------
(***************************************************************************)
(* Entity resolution and relationship typing of chat2graph.                *)
(*                                                                         *)
(*   reclassify_relationships.py : infer_entity_type, validate_and_correct,*)
(*                                 classify_relationship, reclassify_all   *)
(*   extract_clinical.py         : resolve_entities,                       *)
(*                                 resolve_extraction_result               *)
(*   api_server.py               : POST /reclassify                        *)
(*                                                                         *)
(* Specifications:                                                         *)
(*   SpecCorrect  validate_and_correct applied to every input, then to its *)
(*                own output                                               *)
(*   Spec         sequential runs of reclassify_all against one store      *)
(*   SpecRace     two interleaved runs of reclassify_all                   *)
(*   SpecResume   a run aborted part-way and run again, the classifier     *)
(*                answering the same for each relationship                 *)
(*   SpecResolve  resolve_entities, one loop iteration per step            *)
(*   SpecExtract  extract_all: resolve_extraction_result and the store     *)
(*                call for each conversation of a batch                    *)
(*   SpecParse    the response parser of classify_relationship on every    *)
(*                response text                                            *)
(*   SpecApi      requests to POST /reclassify, one after the other        *)
(*   SpecVanish   one run of reclassify_all while an entity is deleted     *)
(*   SpecLive     one uninterrupted run of reclassify_all, with fairness   *)
(***************************************************************************)
EXTENDS Integers, Sequences, FiniteSets, Bags, TLC

VARIABLES
    \* --- validate_and_correct, applied on its own ---
    vpc,            \* "input" | "once" | "twice"
    vin,            \* [rel_type, should_reverse, from_type, to_type]
    vout,           \* result of the first application
    vout2,          \* result of the application to the first result
    \* --- the graph store ---
    relates_to,     \* generic RELATES_TO relations: set of [rel_id, from_id, to_id, fact]
    typed,          \* typed edges: bag of [type, source_id, target_id, fact, source]
    nodes,          \* ids of the Entity nodes that are in the store
    \* --- reclassify_all, per run ---
    pc,             \* position of each run
    edges,          \* the list returned by get_all_relates_to_edges
    idx,            \* loop index (1-based position in edges)
    rel_type,       \* locals of the loop body
    should_reverse,
    source_id,
    target_id,
    stats,          \* Counter of the classified types
    skipped,
    reversed_count,
    started,        \* number of runs each process has started
    aborts,         \* number of runs that were cut short
    llm,            \* the answers of a classifier that answers the same every time
    \* --- resolve_entities ---
    rpc,
    entities,       \* the input list (names)
    unique_names,   \* list(set(names)), in the order the set iterates
    sim,            \* the similarity matrix, by index into unique_names
    canonical_map,
    processed,
    ri,
    rj,
    canonical,
    resolved_entities,  \* the deduplicated entity list that is returned
    embedding_model,    \* the module-level _embedding_model: "None" or "loaded"
    embed_calls,        \* number of model.encode calls
    \* --- extract_all and resolve_extraction_result ---
    xpc,                \* position in extract_all / resolve_extraction_result
    conv,               \* the conversation of the batch being processed (1-based)
    stored,             \* number of store_in_neo4j calls
    relationships,      \* the relationships of the extraction result: [from, to]
    clinical_map,
    resolved_clinical,
    semantic_map,
    resolved_semantic,
    full_map,
    resolved_relationships,
    \* --- the response parser of classify_relationship, applied on its own ---
    ppc,            \* "text" | "parsed"
    response_text,  \* the lines of the upper-cased response
    parsed,         \* [t, r]: rel_type and should_reverse before validation
    \* --- POST /reclassify ---
    apc,            \* position of the request handler
    api_edges,      \* its list of RELATES_TO rows
    api_idx,        \* position in the list (1-based)
    api_stats,      \* its Counter of the classified types
    created,        \* its count of creation queries
    requests        \* number of requests served or being served

vvars == <<vpc, vin, vout, vout2>>
store == <<relates_to, typed, nodes>>
locals == <<pc, edges, idx, rel_type, should_reverse, source_id, target_id,
            stats, skipped, reversed_count, started, aborts, llm>>
rvars == <<rpc, entities, unique_names, sim, canonical_map, processed, ri, rj,
           canonical, resolved_entities, embedding_model, embed_calls>>
xvars == <<xpc, conv, stored, relationships, clinical_map, resolved_clinical,
           semantic_map, resolved_semantic, full_map, resolved_relationships>>
pvars == <<ppc, response_text, parsed>>
avars == <<apc, api_edges, api_idx, api_stats, created, requests>>
vars == <<vvars, store, locals, rvars, xvars, pvars, avars>>

-----------------------------------------------------------------------------
(* Vocabulary *)

\* RELATIONSHIP_TYPES, in list order
RELATIONSHIP_TYPES ==
    << "TREATS", "PRESCRIBED", "TAKES", "REFERRED", "SUPPORTS", "FAMILY_OF",
       "WORKS_AT", "DIAGNOSED_WITH", "TRIGGERS", "UNCERTAIN" >>

RelTypes == { RELATIONSHIP_TYPES[k] : k \in DOMAIN RELATIONSHIP_TYPES }

\* the values infer_entity_type returns
CoarseTypes ==
    { "PATIENT", "PERSON", "PROVIDER", "MEDICATION", "ORGANIZATION",
      "CONDITION", "ASSESSMENT", "THERAPY", "APP", "UNKNOWN" }

-----------------------------------------------------------------------------
(* validate_and_correct: the rule blocks run one after another, each guarded *)
(* by the current rel_type; source_type and target_type are computed once,   *)
(* before the first block, and are not recomputed when should_reverse flips. *)

\* a TREATS block without the leniency for a PATIENT or PERSON source
Rule1Strict(s, source_type, target_type, from_type) ==
    IF s.t # "TREATS" THEN s
    ELSE IF target_type = "MEDICATION"
         THEN [t |-> "TAKES", r |-> (from_type = "MEDICATION")]
    ELSE IF target_type = "PROVIDER" /\ source_type = "PROVIDER"
         THEN [s EXCEPT !.t = "REFERRED"]
    ELSE IF source_type = "PATIENT" /\ target_type = "PROVIDER"
         THEN [s EXCEPT !.r = ~s.r]
    ELSE IF source_type # "PROVIDER" /\ target_type # "PROVIDER"
         THEN [s EXCEPT !.t = "UNCERTAIN"]
    ELSE s

Rule1(s, source_type, target_type, from_type) ==
    IF s.t # "TREATS" THEN s
    ELSE IF target_type = "MEDICATION"
         THEN [t |-> "TAKES", r |-> (from_type = "MEDICATION")]
    ELSE IF target_type = "PROVIDER" /\ source_type = "PROVIDER"
         THEN [s EXCEPT !.t = "REFERRED"]
    ELSE IF source_type = "PATIENT" /\ target_type = "PROVIDER"
         THEN [s EXCEPT !.r = ~s.r]
    ELSE IF source_type # "PROVIDER" /\ target_type # "PROVIDER"
         THEN IF source_type \in {"PATIENT", "PERSON"}
              THEN s
              ELSE [s EXCEPT !.t = "UNCERTAIN"]
    ELSE s

Rule2(s, source_type, target_type) ==
    IF s.t # "PRESCRIBED" THEN s
    ELSE IF source_type = "MEDICATION"
         THEN [s EXCEPT !.r = ~s.r]
    ELSE IF target_type = "PROVIDER"
         THEN IF source_type = "PROVIDER"
              THEN [s EXCEPT !.t = "REFERRED"]
              ELSE [s EXCEPT !.t = "UNCERTAIN"]
    ELSE IF target_type = "PATIENT"
         THEN [s EXCEPT !.t = "TREATS"]
    ELSE IF source_type = "PATIENT"
         THEN [s EXCEPT !.t = "TAKES"]
    ELSE s

\* a TAKES block that accepts any target
Rule3AnyTarget(s, source_type, target_type) ==
    IF s.t # "TAKES" THEN s
    ELSE IF source_type = "MEDICATION"
         THEN [s EXCEPT !.r = ~s.r]
    ELSE IF source_type = "PROVIDER"
         THEN [s EXCEPT !.t = "PRESCRIBED"]
    ELSE s

Rule3(s, source_type, target_type) ==
    IF s.t # "TAKES" THEN s
    ELSE IF source_type = "MEDICATION"
         THEN [s EXCEPT !.r = ~s.r]
    ELSE IF target_type # "MEDICATION"
         THEN IF target_type = "PROVIDER"
              THEN [t |-> "TREATS", r |-> ~s.r]
              ELSE [s EXCEPT !.t = "UNCERTAIN"]
    ELSE IF source_type = "PROVIDER"
         THEN [s EXCEPT !.t = "PRESCRIBED"]
    ELSE s

\* a WORKS_AT block whose second branch never flips
Rule4FirstBranchOnly(s, source_type, target_type) ==
    IF s.t # "WORKS_AT" THEN s
    ELSE IF source_type = "ORGANIZATION"
            /\ target_type \in {"PROVIDER", "PATIENT", "PERSON", "UNKNOWN"}
         THEN [s EXCEPT !.r = ~s.r]
    ELSE IF target_type # "ORGANIZATION"
         THEN [s EXCEPT !.t = "UNCERTAIN"]
    ELSE s

Rule4(s, source_type, target_type) ==
    IF s.t # "WORKS_AT" THEN s
    ELSE IF source_type = "ORGANIZATION"
            /\ target_type \in {"PROVIDER", "PATIENT", "PERSON", "UNKNOWN"}
         THEN [s EXCEPT !.r = ~s.r]
    ELSE IF target_type # "ORGANIZATION"
         THEN IF source_type = "ORGANIZATION"
              THEN [s EXCEPT !.r = ~s.r]
              ELSE [s EXCEPT !.t = "UNCERTAIN"]
    ELSE s

Rule5(s, source_type, target_type) ==
    IF s.t # "DIAGNOSED_WITH" THEN s
    ELSE IF source_type = "CONDITION" \/ source_type = "ASSESSMENT"
         THEN [s EXCEPT !.r = ~s.r]
    ELSE IF target_type \notin {"CONDITION", "ASSESSMENT"}
         THEN [s EXCEPT !.t = "UNCERTAIN"]
    ELSE s

Rule6(s, source_type, target_type) ==
    IF s.t # "SUPPORTS" THEN s
    ELSE IF target_type \in {"MEDICATION", "ORGANIZATION"}
         THEN [s EXCEPT !.t = "UNCERTAIN"]
    ELSE s

Rule7(s, source_type, target_type) ==
    IF s.t # "FAMILY_OF" THEN s
    ELSE IF source_type \in {"MEDICATION", "ORGANIZATION"}
            \/ target_type \in {"MEDICATION", "ORGANIZATION"}
         THEN [s EXCEPT !.t = "UNCERTAIN"]
    ELSE s

\* the effective (source, target) types of an edge from -> to under a reverse flag
EffectiveSource(reverse, from_type, to_type) == IF reverse THEN to_type ELSE from_type
EffectiveTarget(reverse, from_type, to_type) == IF reverse THEN from_type ELSE to_type

\* returns [t |-> corrected_rel_type, r |-> corrected_should_reverse]
validate_and_correct(t, r, from_type, to_type) ==
    LET source_type == EffectiveSource(r, from_type, to_type)
        target_type == EffectiveTarget(r, from_type, to_type)
        s0 == [t |-> t, r |-> r]
        s1 == Rule1(s0, source_type, target_type, from_type)
        s2 == Rule2(s1, source_type, target_type)
        s3 == Rule3(s2, source_type, target_type)
        s4 == Rule4(s3, source_type, target_type)
        s5 == Rule5(s4, source_type, target_type)
        s6 == Rule6(s5, source_type, target_type)
        s7 == Rule7(s6, source_type, target_type)
    IN  s7

-----------------------------------------------------------------------------
(* infer_entity_type.  Names and summaries are sequences of characters, so  *)
(* that lower(), the substring tests and split() are computed as in Python. *)

UpperChars == <<"A","B","C","D","E","F","G","H","I","J","K","L","M","N","O","P","Q","R","S","T","U","V","W","X","Y","Z">>
LowerChars == <<"a","b","c","d","e","f","g","h","i","j","k","l","m","n","o","p","q","r","s","t","u","v","w","x","y","z">>

\* str.lower(), on the ASCII letters
LowerChar(c) ==
    IF \E k \in DOMAIN UpperChars : UpperChars[k] = c
    THEN LowerChars[CHOOSE k \in DOMAIN UpperChars : UpperChars[k] = c]
    ELSE c

Lower(s) == [k \in DOMAIN s |-> LowerChar(s[k])]

\* str.isupper() of one character
IsUpperChar(c) == \E k \in DOMAIN UpperChars : UpperChars[k] = c

\* pat in s
Contains(pat, s) ==
    \E k \in 0 .. (Len(s) - Len(pat)) : SubSeq(s, k + 1, k + Len(pat)) = pat

\* any(p in s for p in pats)
ContainsAny(pats, s) == \E p \in pats : Contains(p, s)

\* str.split(): the maximal runs of non-blank characters
RECURSIVE SplitFrom(_, _, _)
SplitFrom(s, k, cur) ==
    LET flush == IF cur = <<>> THEN <<>> ELSE <<cur>>
    IN  IF k > Len(s) THEN flush
        ELSE IF s[k] = " " THEN flush \o SplitFrom(s, k + 1, <<>>)
        ELSE SplitFrom(s, k + 1, Append(cur, s[k]))

Split(s) == SplitFrom(s, 1, <<>>)

\* the patterns of line 110
medication_names ==
    { <<"s","e","r","t","r","a","l","i","n","e">>,
      <<"b","u","p","r","o","p","i","o","n">>,
      <<"e","s","c","i","t","a","l","o","p","r","a","m">>,
      <<"v","e","n","l","a","f","a","x","i","n","e">>,
      <<"m","e","l","a","t","o","n","i","n">>,
      <<"p","r","o","z","a","c">>,
      <<"z","o","l","o","f","t">>,
      <<"l","e","x","a","p","r","o">> }

\* the patterns of line 115
NameProvider ==
    { <<"d","r",".">>,
      <<"d","r"," ">>,
      <<"m","d">>,
      <<"p","h","d">>,
      <<"l","c","s","w">>,
      <<"t","h","e","r","a","p","i","s","t">>,
      <<"n","u","r","s","e"," ","p","r","a","c","t","i","t","i","o","n","e","r">> }

\* the patterns of line 119
NameOrganization ==
    { <<"i","n","c",".">>,
      <<"i","n","c">>,
      <<"c","o","r","p">>,
      <<"l","l","c">>,
      <<"s","y","s","t","e","m","s">>,
      <<"s","o","l","u","t","i","o","n","s">>,
      <<"a","n","a","l","y","t","i","c","s">>,
      <<"c","a","p","i","t","a","l">>,
      <<"a","s","s","o","c","i","a","t","i","o","n">> }

\* the patterns of line 122
NameApp ==
    { <<"a","p","p">>,
      <<"c","a","l","m">> }

\* the patterns of line 125
NameTherapy ==
    { <<"c","b","t">>,
      <<"c","o","g","n","i","t","i","v","e"," ","b","e","h","a","v","i","o","r","a","l">>,
      <<"t","h","e","r","a","p","y">> }

\* the patterns of line 128
NameAssessment ==
    { <<"p","h","q">>,
      <<"g","a","d","-">>,
      <<"s","c","o","r","e">>,
      <<"a","s","s","e","s","s","m","e","n","t">> }

\* the patterns of line 131
NameCondition ==
    { <<"a","n","x","i","e","t","y">>,
      <<"d","e","p","r","e","s","s","i","o","n">>,
      <<"d","i","s","o","r","d","e","r">>,
      <<"i","n","s","o","m","n","i","a">> }

\* the patterns of line 136
SummaryProvider ==
    { <<"p","s","y","c","h","i","a","t","r","i","s","t">>,
      <<"p","s","y","c","h","o","l","o","g","i","s","t">>,
      <<"t","h","e","r","a","p","i","s","t">>,
      <<"d","o","c","t","o","r">>,
      <<"c","l","i","n","i","c","i","a","n">>,
      <<"n","u","r","s","e">>,
      <<"c","o","u","n","s","e","l","o","r">>,
      <<"p","r","e","s","c","r","i","b">> }

\* the patterns of line 140
SummaryPatient ==
    { <<"p","a","t","i","e","n","t">>,
      <<"c","l","i","e","n","t">>,
      <<"s","y","m","p","t","o","m","s">>,
      <<"d","i","a","g","n","o","s","e","d">>,
      <<"t","r","e","a","t","m","e","n","t"," ","f","o","r">> }

\* the patterns of line 144
SummaryMedication ==
    { <<"m","e","d","i","c","a","t","i","o","n">>,
      <<"d","r","u","g">>,
      <<"m","g">>,
      <<"d","o","s","e">>,
      <<"p","r","e","s","c","r","i","b","e","d">>,
      <<"a","n","t","i","d","e","p","r","e","s","s","a","n","t">> }

\* the patterns of line 148
SummaryOrganization ==
    { <<"c","o","m","p","a","n","y">>,
      <<"o","r","g","a","n","i","z","a","t","i","o","n">>,
      <<"c","o","r","p","o","r","a","t","i","o","n">>,
      <<"f","o","u","n","d","e","d">>,
      <<"c","e","o">>,
      <<"c","t","o">> }


StrPatient == <<"p","a","t","i","e","n","t">>

infer_entity_type(name, summary) ==
    LET name_lower == Lower(name)
        summary_lower == Lower(summary)
        words == Split(name)
    IN  IF Contains(StrPatient, name_lower) THEN "PATIENT"
        ELSE IF ContainsAny(medication_names, name_lower) THEN "MEDICATION"
        ELSE IF ContainsAny(NameProvider, name_lower) THEN "PROVIDER"
        ELSE IF ContainsAny(NameOrganization, name_lower) THEN "ORGANIZATION"
        ELSE IF ContainsAny(NameApp, name_lower) THEN "APP"
        ELSE IF ContainsAny(NameTherapy, name_lower) THEN "THERAPY"
        ELSE IF ContainsAny(NameAssessment, name_lower) THEN "ASSESSMENT"
        ELSE IF ContainsAny(NameCondition, name_lower) THEN "CONDITION"
        ELSE IF ContainsAny(SummaryProvider, summary_lower) THEN "PROVIDER"
        ELSE IF ContainsAny(SummaryPatient, summary_lower) THEN "PATIENT"
        ELSE IF ContainsAny(SummaryMedication, summary_lower) THEN "MEDICATION"
        ELSE IF ContainsAny(SummaryOrganization, summary_lower) THEN "ORGANIZATION"
        ELSE IF Len(words) >= 2
                /\ \A k \in DOMAIN words : IsUpperChar(words[k][1])
             THEN "PERSON"
        ELSE "UNKNOWN"

-----------------------------------------------------------------------------
(* The graph store.  Entity nodes are fixed; reclassification reads them.   *)

StrUnknown == <<"U","n","k","n","o","w","n">>
NameDrChen == <<"D","r","."," ","C","h","e","n">>
NamePatient == <<"p","a","t","i","e","n","t">>
NameSertraline == <<"s","e","r","t","r","a","l","i","n","e">>

\* the Entity nodes: elementId, name, summary (None and "" are both <<>>)
Entities ==
    { [id |-> 1, name |-> NameDrChen,     summary |-> <<>>],
      [id |-> 2, name |-> NamePatient,    summary |-> <<>>],
      [id |-> 3, name |-> NameSertraline, summary |-> <<>>] }

EntityIds == { e.id : e \in Entities }

EntityById(id) == CHOOSE e \in Entities : e.id = id

\* x or default
OrDefault(x, default) == IF x = <<>> THEN default ELSE x

\* infer_entity_type of the (name, summary) pairs the store can return, computed once
InferredTypes ==
    [p \in { <<OrDefault(e.name, StrUnknown), e.summary>> : e \in Entities }
        |-> infer_entity_type(p[1], p[2])]

-----------------------------------------------------------------------------
(* classify_relationship.  A reply of the text-generation service is        *)
(*   kind  : "ok" (status 200, body read), "status" (another status),       *)
(*           "timeout", "error" (any other exception)                       *)
(*   lines : the upper-cased response text, line by line; of each line what *)
(*           the parser looks at: how it starts (head), the vocabulary      *)
(*           tokens it contains, and whether it contains REVERSE            *)

\* for rt in RELATIONSHIP_TYPES: if rt in text: ...; break
HasType(tokens) == \E k \in DOMAIN RELATIONSHIP_TYPES : RELATIONSHIP_TYPES[k] \in tokens

FirstType(tokens) ==
    RELATIONSHIP_TYPES[
        CHOOSE k \in DOMAIN RELATIONSHIP_TYPES :
            /\ RELATIONSHIP_TYPES[k] \in tokens
            /\ \A m \in 1 .. (k - 1) : RELATIONSHIP_TYPES[m] \notin tokens ]

\* a loop body that looks for REVERSE in every line
ParseLineAnyReverse(s, line) ==
    IF line.head = "TYPE"
    THEN IF HasType(line.tokens) THEN [s EXCEPT !.t = FirstType(line.tokens)] ELSE s
    ELSE [s EXCEPT !.r = line.reverse]

\* one iteration of the loop over the lines
ParseLine(s, line) ==
    IF line.head = "TYPE"
    THEN IF HasType(line.tokens) THEN [s EXCEPT !.t = FirstType(line.tokens)] ELSE s
    ELSE IF line.head = "DIRECTION"
    THEN [s EXCEPT !.r = line.reverse]
    ELSE s

RECURSIVE ParseLines(_, _, _)
ParseLines(s, lines, k) ==
    IF k > Len(lines) THEN s ELSE ParseLines(ParseLine(s, lines[k]), lines, k + 1)

AllTokens(lines) == UNION { lines[k].tokens : k \in DOMAIN lines }

\* the parse of a 200 response, before validation
ParseResponse(lines) ==
    LET s == ParseLines([t |-> "UNCERTAIN", r |-> FALSE], lines, 1)
    IN  IF s.t = "UNCERTAIN" /\ HasType(AllTokens(lines))
        THEN [s EXCEPT !.t = FirstType(AllTokens(lines))]
        ELSE s

\* a classifier wrapper that reports a failed call as a referral
ClassifyFailureAsReferred(resp, from_type, to_type) ==
    IF resp.kind = "ok"
    THEN LET p == ParseResponse(resp.lines)
         IN  validate_and_correct(p.t, p.r, from_type, to_type)
    ELSE [t |-> "REFERRED", r |-> FALSE]

\* lines 373-430: parse and validate a 200 response, (UNCERTAIN, KEEP) otherwise
classify_relationship(resp, from_type, to_type) ==
    IF resp.kind = "ok"
    THEN LET p == ParseResponse(resp.lines)
         IN  validate_and_correct(p.t, p.r, from_type, to_type)
    ELSE [t |-> "UNCERTAIN", r |-> FALSE]

\* the two-line reply the prompt asks for
Structured(t, rev) ==
    [kind |-> "ok",
     lines |-> << [head |-> "TYPE", tokens |-> {t}, reverse |-> FALSE],
                  [head |-> "DIRECTION", tokens |-> {}, reverse |-> rev] >>]

\* a reply that is free text naming a type
FreeText(t) ==
    [kind |-> "ok", lines |-> << [head |-> "OTHER", tokens |-> {t}, reverse |-> FALSE] >>]

Failure(kind) == [kind |-> kind, lines |-> << >>]

\* the replies the runs draw from
Responses ==
    { Structured(t, rev) : t \in RelTypes, rev \in BOOLEAN }
        \cup { FreeText("TAKES"), Failure("status"), Failure("timeout"), Failure("error") }

-----------------------------------------------------------------------------
(* Store queries and writes *)

\* get_all_relates_to_edges: one row per RELATES_TO relation, here in rel_id order
EdgeRow(g) ==
    [rel_id       |-> g.rel_id,
     from_id      |-> g.from_id,
     from_name    |-> OrDefault(EntityById(g.from_id).name, StrUnknown),
     from_summary |-> EntityById(g.from_id).summary,
     to_id        |-> g.to_id,
     to_name      |-> OrDefault(EntityById(g.to_id).name, StrUnknown),
     to_summary   |-> EntityById(g.to_id).summary,
     fact         |-> g.fact]

RECURSIVE RowsFrom(_, _)
RowsFrom(gs, k) ==
    IF \A g \in gs : g.rel_id < k THEN << >>
    ELSE IF \E g \in gs : g.rel_id = k
         THEN << EdgeRow(CHOOSE g \in gs : g.rel_id = k) >> \o RowsFrom(gs, k + 1)
         ELSE RowsFrom(gs, k + 1)

get_all_relates_to_edges(gs) == RowsFrom(gs, 1)

\* the typed edges of the store with this type between this ordered pair
Matching(tb, from_id, to_id, rtype) ==
    { e \in BagToSet(tb) : e.type = rtype /\ e.source_id = from_id /\ e.target_id = to_id }

RECURSIVE SumCopies(_, _)
SumCopies(tb, es) ==
    IF es = {} THEN 0
    ELSE LET e == CHOOSE x \in es : TRUE
         IN  CopiesIn(e, tb) + SumCopies(tb, es \ {e})

\* count(r) of the MATCH
CountTyped(tb, from_id, to_id, rtype) == SumCopies(tb, Matching(tb, from_id, to_id, rtype))

\* a check that looks for the edge in the opposite direction
CheckOppositeDirection(tb, from_id, to_id, rtype) ==
    CountTyped(tb, to_id, from_id, rtype) > 0

\* a check that is off by one
CheckMoreThanOne(tb, from_id, to_id, rtype) ==
    CountTyped(tb, from_id, to_id, rtype) > 1

check_existing_typed_edge(tb, from_id, to_id, rtype) ==
    CountTyped(tb, from_id, to_id, rtype) > 0

\* a creation that ignores the corrected direction's order of the two ids
CreateSwapped(tb, from_id, to_id, rtype, fact) ==
    IF from_id \in nodes /\ to_id \in nodes
    THEN tb (+) SetToBag({ [type |-> rtype, source_id |-> to_id, target_id |-> from_id,
                            fact |-> fact, source |-> "reclassified"] })
    ELSE tb

\* MATCH both nodes by id, CREATE the edge; nothing is created when a node is missing
create_typed_edge(tb, from_id, to_id, rtype, fact) ==
    IF from_id \in nodes /\ to_id \in nodes
    THEN tb (+) SetToBag({ [type |-> rtype, source_id |-> from_id, target_id |-> to_id,
                            fact |-> fact, source |-> "reclassified"] })
    ELSE tb

-----------------------------------------------------------------------------
(* reclassify_all.  One run is a process r; its steps are the calls that    *)
(* leave the process: the classification of one edge (with the local work   *)
(* up to the existence check), the existence check, the creation.           *)

\* relations in the store at most, and runs started at most
MaxRels == 2
MaxRuns == 2

Runs == {1, 2}

\* what a generic relation of the store may be: (from_id, to_id, fact)
GenericCandidates ==
    { <<1, 2, "f1">>, <<2, 1, "f2">>, <<2, 3, "f1">> }

\* the stores reclassification starts from: RELATES_TO relations 1..n
InitialRelations ==
    UNION { { { [rel_id |-> k, from_id |-> c[k][1], to_id |-> c[k][2], fact |-> c[k][3]]
                : k \in 1 .. n }
              : c \in [1 .. n -> GenericCandidates] }
            : n \in 0 .. MaxRels }

Unbound == "unbound"

ZeroStats == [t \in RelTypes |-> 0]

\* the locals of a process that is not running
Reset(r) ==
    /\ edges' = [edges EXCEPT ![r] = << >>]
    /\ idx' = [idx EXCEPT ![r] = 1]
    /\ rel_type' = [rel_type EXCEPT ![r] = Unbound]
    /\ should_reverse' = [should_reverse EXCEPT ![r] = FALSE]
    /\ source_id' = [source_id EXCEPT ![r] = 0]
    /\ target_id' = [target_id EXCEPT ![r] = 0]
    /\ stats' = [stats EXCEPT ![r] = ZeroStats]
    /\ skipped' = [skipped EXCEPT ![r] = 0]
    /\ reversed_count' = [reversed_count EXCEPT ![r] = 0]

\* a loop that steps over every other edge
NextEdgeSkipsOne(r) ==
    /\ idx' = [idx EXCEPT ![r] = @ + 2]
    /\ rel_type' = [rel_type EXCEPT ![r] = Unbound]
    /\ should_reverse' = [should_reverse EXCEPT ![r] = FALSE]
    /\ source_id' = [source_id EXCEPT ![r] = 0]
    /\ target_id' = [target_id EXCEPT ![r] = 0]
    /\ pc' = [pc EXCEPT ![r] = "loop"]

\* the loop moves to the next edge; the body's locals are rebound there
NextEdge(r) ==
    /\ idx' = [idx EXCEPT ![r] = @ + 1]
    /\ rel_type' = [rel_type EXCEPT ![r] = Unbound]
    /\ should_reverse' = [should_reverse EXCEPT ![r] = FALSE]
    /\ source_id' = [source_id EXCEPT ![r] = 0]
    /\ target_id' = [target_id EXCEPT ![r] = 0]
    /\ pc' = [pc EXCEPT ![r] = "loop"]

Running(r) == pc[r] \in {"loop", "check", "create"}

\* lines 459-477: connect, query the edges, return at once when there are none
Start(r) ==
    /\ pc[r] \in {"idle", "done"}
    /\ started[r] < MaxRuns
    /\ started' = [started EXCEPT ![r] = @ + 1]
    /\ edges' = [edges EXCEPT ![r] = get_all_relates_to_edges(relates_to)]
    /\ idx' = [idx EXCEPT ![r] = 1]
    /\ rel_type' = [rel_type EXCEPT ![r] = Unbound]
    /\ should_reverse' = [should_reverse EXCEPT ![r] = FALSE]
    /\ source_id' = [source_id EXCEPT ![r] = 0]
    /\ target_id' = [target_id EXCEPT ![r] = 0]
    /\ stats' = [stats EXCEPT ![r] = ZeroStats]
    /\ skipped' = [skipped EXCEPT ![r] = 0]
    /\ reversed_count' = [reversed_count EXCEPT ![r] = 0]
    /\ pc' = [pc EXCEPT ![r] = IF relates_to = {} THEN "done" ELSE "loop"]
    /\ UNCHANGED <<store, llm, aborts>>

\* a loop body without the UNCERTAIN skip
KeptGenericNever(t) == FALSE

\* lines 494-497: an UNCERTAIN relationship is kept as RELATES_TO only
KeptGeneric(t) == t = "UNCERTAIN"

\* lines 499-507: source and target of the typed edge
Orient(edge, reverse) ==
    IF reverse
    THEN [source_id |-> edge.to_id, target_id |-> edge.from_id]
    ELSE [source_id |-> edge.from_id, target_id |-> edge.to_id]

\* lines 479-507: infer the types, classify, count, skip UNCERTAIN, orient
ClassifyWith(r, resp) ==
    /\ pc[r] = "loop"
    /\ idx[r] <= Len(edges[r])
    /\ LET edge == edges[r][idx[r]]
           from_type == InferredTypes[<<edge.from_name, edge.from_summary>>]
           to_type == InferredTypes[<<edge.to_name, edge.to_summary>>]
           c == classify_relationship(resp, from_type, to_type)
       IN  /\ stats' = [stats EXCEPT ![r][c.t] = @ + 1]
           /\ IF KeptGeneric(c.t)
              THEN /\ NextEdge(r)
                   /\ UNCHANGED reversed_count
              ELSE /\ rel_type' = [rel_type EXCEPT ![r] = c.t]
                   /\ should_reverse' = [should_reverse EXCEPT ![r] = c.r]
                   /\ source_id' = [source_id EXCEPT ![r] = Orient(edge, c.r).source_id]
                   /\ target_id' = [target_id EXCEPT ![r] = Orient(edge, c.r).target_id]
                   /\ reversed_count' = [reversed_count EXCEPT ![r] =
                                       IF c.r THEN @ + 1 ELSE @]
                   /\ pc' = [pc EXCEPT ![r] = "check"]
                   /\ UNCHANGED idx
    /\ UNCHANGED <<store, edges, skipped, started, llm, aborts>>

\* the classifier answers anything
Classify(r) == \E resp \in Responses : ClassifyWith(r, resp)

\* the classifier answers the same for a relation every time it is asked
ClassifyFixed(r) ==
    /\ pc[r] = "loop"
    /\ idx[r] <= Len(edges[r])
    /\ ClassifyWith(r, llm[edges[r][idx[r]].rel_id])

\* lines 509-513: the existence check
Check(r) ==
    /\ pc[r] = "check"
    /\ IF check_existing_typed_edge(typed, source_id[r], target_id[r], rel_type[r])
       THEN /\ skipped' = [skipped EXCEPT ![r] = @ + 1]
            /\ NextEdge(r)
       ELSE /\ pc' = [pc EXCEPT ![r] = "create"]
            /\ UNCHANGED <<idx, rel_type, should_reverse, source_id, target_id, skipped>>
    /\ UNCHANGED <<store, edges, stats, reversed_count, started, llm, aborts>>

\* a creation that replaces the generic relation by the typed edge
CreateReplacing(r) ==
    /\ pc[r] = "create"
    /\ typed' = typed (+) SetToBag({ [type |-> rel_type[r], source_id |-> source_id[r],
                                      target_id |-> target_id[r],
                                      fact |-> edges[r][idx[r]].fact,
                                      source |-> "reclassified"] })
    /\ relates_to' = { g \in relates_to : g.rel_id # edges[r][idx[r]].rel_id }
    /\ NextEdge(r)
    /\ UNCHANGED <<nodes, edges, stats, skipped, reversed_count, started, llm, aborts>>

\* lines 515-517: the creation
Create(r) ==
    /\ pc[r] = "create"
    /\ typed' = create_typed_edge(typed, source_id[r], target_id[r], rel_type[r],
                                  edges[r][idx[r]].fact)
    /\ NextEdge(r)
    /\ UNCHANGED <<relates_to, nodes, edges, stats, skipped, reversed_count, started, llm, aborts>>

\* lines 519-538: the loop is over, the summary is printed
Finish(r) ==
    /\ pc[r] = "loop"
    /\ idx[r] > Len(edges[r])
    /\ pc' = [pc EXCEPT ![r] = "done"]
    /\ UNCHANGED <<store, edges, idx, rel_type, should_reverse, source_id, target_id,
                   stats, skipped, reversed_count, started, llm, aborts>>

\* the summary line "New edges created", line 533
NewEdgesCreated(r) == Len(edges[r]) - stats[r]["UNCERTAIN"] - skipped[r]

\* lines 479-517 run to the end without interruption against typed edges tb, the
\* classifier answering answers[rel_id]: the typed edges afterwards
RECURSIVE RunFrom(_, _, _, _)
RunFrom(tb, rows, k, answers) ==
    IF k > Len(rows) THEN tb
    ELSE LET edge == rows[k]
             from_type == InferredTypes[<<edge.from_name, edge.from_summary>>]
             to_type == InferredTypes[<<edge.to_name, edge.to_summary>>]
             c == classify_relationship(answers[edge.rel_id], from_type, to_type)
             o == Orient(edge, c.r)
         IN  IF KeptGeneric(c.t) THEN RunFrom(tb, rows, k + 1, answers)
             ELSE IF check_existing_typed_edge(tb, o.source_id, o.target_id, c.t)
                  THEN RunFrom(tb, rows, k + 1, answers)
             ELSE RunFrom(create_typed_edge(tb, o.source_id, o.target_id, c.t, edge.fact),
                          rows, k + 1, answers)

UninterruptedRun(gs, answers) == RunFrom(EmptyBag, get_all_relates_to_edges(gs), 1, answers)

\* the process is terminated from outside, or a store call raises: no rollback
Abort(r) ==
    /\ Running(r)
    /\ pc' = [pc EXCEPT ![r] = "idle"]
    /\ Reset(r)
    /\ aborts' = aborts + 1
    /\ UNCHANGED <<store, started, llm>>

-----------------------------------------------------------------------------
(* Initial states *)

NoResult == [t |-> Unbound, r |-> FALSE]

NoInput == [rel_type |-> Unbound, should_reverse |-> FALSE,
            from_type |-> Unbound, to_type |-> Unbound]

\* validate_and_correct is not being probed
CorrectorOff ==
    /\ vpc = "off"
    /\ vin = NoInput
    /\ vout = NoResult
    /\ vout2 = NoResult

\* no process runs, no typed edge exists yet, every entity is in the store
ProcessesIdle ==
    /\ typed = EmptyBag
    /\ nodes = EntityIds
    /\ pc = [r \in Runs |-> "idle"]
    /\ edges = [r \in Runs |-> << >>]
    /\ idx = [r \in Runs |-> 1]
    /\ rel_type = [r \in Runs |-> Unbound]
    /\ should_reverse = [r \in Runs |-> FALSE]
    /\ source_id = [r \in Runs |-> 0]
    /\ target_id = [r \in Runs |-> 0]
    /\ stats = [r \in Runs |-> ZeroStats]
    /\ skipped = [r \in Runs |-> 0]
    /\ reversed_count = [r \in Runs |-> 0]
    /\ started = [r \in Runs |-> 0]
    /\ aborts = 0

\* resolve_entities has not been called
ResolverOff ==
    /\ rpc = "off"
    /\ entities = << >>
    /\ unique_names = << >>
    /\ sim = << >>
    /\ canonical_map = << >>
    /\ processed = {}
    /\ ri = 0
    /\ rj = 0
    /\ canonical = << >>
    /\ resolved_entities = << >>
    /\ embedding_model = "None"
    /\ embed_calls = 0

\* extract_all is not running
ExtractOff ==
    /\ xpc = "off"
    /\ conv = 0
    /\ stored = 0
    /\ relationships = << >>
    /\ clinical_map = << >>
    /\ resolved_clinical = << >>
    /\ semantic_map = << >>
    /\ resolved_semantic = << >>
    /\ full_map = << >>
    /\ resolved_relationships = << >>

-----------------------------------------------------------------------------
(* SpecCorrect: validate_and_correct on every input, then on its own output *)

\* the response parser is not being probed
ParserOff ==
    /\ ppc = "off"
    /\ response_text = << >>
    /\ parsed = NoResult

\* no request to POST /reclassify was made
ApiOff ==
    /\ apc = "idle"
    /\ api_edges = << >>
    /\ api_idx = 1
    /\ api_stats = ZeroStats
    /\ created = 0
    /\ requests = 0

CorrectorInputs ==
    [rel_type : RelTypes, should_reverse : BOOLEAN,
     from_type : CoarseTypes, to_type : CoarseTypes]

InitCorrect ==
    /\ vpc = "input"
    /\ vin \in CorrectorInputs
    /\ vout = NoResult
    /\ vout2 = NoResult
    /\ relates_to = {}
    /\ llm = << >>
    /\ ProcessesIdle
    /\ ParserOff
    /\ ApiOff
    /\ ResolverOff
    /\ ExtractOff

CorrectOnce ==
    /\ vpc = "input"
    /\ vout' = validate_and_correct(vin.rel_type, vin.should_reverse,
                                    vin.from_type, vin.to_type)
    /\ vpc' = "once"
    /\ UNCHANGED <<vin, vout2, store, locals, rvars, xvars, pvars, avars>>

CorrectAgain ==
    /\ vpc = "once"
    /\ vout2' = validate_and_correct(vout.t, vout.r, vin.from_type, vin.to_type)
    /\ vpc' = "twice"
    /\ UNCHANGED <<vin, vout, store, locals, rvars, xvars, pvars, avars>>

NextCorrect == CorrectOnce \/ CorrectAgain

SpecCorrect == InitCorrect /\ [][NextCorrect]_vars

-----------------------------------------------------------------------------
(* SpecParse: the response parser of classify_relationship (lines 388-413) *)
(* on every response text of up to MaxLines lines                          *)

MaxLines == 2

\* the vocabulary words the lines of the probe may contain
ProbeTokens == {"TREATS", "TAKES", "UNCERTAIN"}

\* one line of a response: how it starts, the vocabulary words in it, and
\* whether REVERSE occurs in it
ProbeLines ==
    [head : {"TYPE", "DIRECTION", "OTHER"}, tokens : SUBSET ProbeTokens, reverse : BOOLEAN]

ResponseTexts == UNION { [1 .. n -> ProbeLines] : n \in 0 .. MaxLines }

InitParse ==
    /\ ppc = "text"
    /\ response_text \in ResponseTexts
    /\ parsed = NoResult
    /\ relates_to = {}
    /\ llm = << >>
    /\ ProcessesIdle
    /\ ApiOff
    /\ CorrectorOff
    /\ ResolverOff
    /\ ExtractOff

\* lines 392-413: the loop over the lines, then the scan of the whole text
ParseOnce ==
    /\ ppc = "text"
    /\ parsed' = ParseResponse(response_text)
    /\ ppc' = "parsed"
    /\ UNCHANGED <<response_text, vvars, store, locals, rvars, xvars, avars>>

NextParse == ParseOnce

SpecParse == InitParse /\ [][NextParse]_vars

-----------------------------------------------------------------------------
(* Spec: runs of reclassify_all one after another (a run may be cut short) *)

Init ==
    /\ relates_to \in InitialRelations
    /\ llm = << >>
    /\ ProcessesIdle
    /\ ParserOff
    /\ ApiOff
    /\ CorrectorOff
    /\ ResolverOff
    /\ ExtractOff

Next ==
    \/ Start(1) /\ UNCHANGED <<vvars, rvars, xvars, pvars, avars>>
    \/ Classify(1) /\ UNCHANGED <<vvars, rvars, xvars, pvars, avars>>
    \/ Check(1) /\ UNCHANGED <<vvars, rvars, xvars, pvars, avars>>
    \/ Create(1) /\ UNCHANGED <<vvars, rvars, xvars, pvars, avars>>
    \/ Finish(1) /\ UNCHANGED <<vvars, rvars, xvars, pvars, avars>>
    \/ Abort(1) /\ UNCHANGED <<vvars, rvars, xvars, pvars, avars>>

Spec == Init /\ [][Next]_vars

-----------------------------------------------------------------------------
(* SpecRace: two runs of reclassify_all against the same store, their store *)
(* calls interleaved in any order; each process runs once                   *)

\* the relations of the race join the same two entities
RaceRelations ==
    { gs \in InitialRelations : \A g \in gs : {g.from_id, g.to_id} = {1, 2} }

InitRace ==
    /\ relates_to \in RaceRelations
    /\ llm = << >>
    /\ ProcessesIdle
    /\ ParserOff
    /\ ApiOff
    /\ CorrectorOff
    /\ ResolverOff
    /\ ExtractOff

RaceStart(r) == started[r] = 0 /\ Start(r)

NextRace ==
    \E r \in Runs :
        \/ RaceStart(r) /\ UNCHANGED <<vvars, rvars, xvars, pvars, avars>>
        \/ Classify(r) /\ UNCHANGED <<vvars, rvars, xvars, pvars, avars>>
        \/ Check(r) /\ UNCHANGED <<vvars, rvars, xvars, pvars, avars>>
        \/ Create(r) /\ UNCHANGED <<vvars, rvars, xvars, pvars, avars>>
        \/ Finish(r) /\ UNCHANGED <<vvars, rvars, xvars, pvars, avars>>

SpecRace == InitRace /\ [][NextRace]_vars

-----------------------------------------------------------------------------
(* SpecResume: as Spec, with a classifier that answers the same for a       *)
(* relation whenever it is asked                                            *)

InitResume ==
    /\ relates_to \in InitialRelations
    /\ llm \in [{ g.rel_id : g \in relates_to } -> Responses]
    /\ ProcessesIdle
    /\ ParserOff
    /\ ApiOff
    /\ CorrectorOff
    /\ ResolverOff
    /\ ExtractOff

NextResume ==
    \/ Start(1) /\ UNCHANGED <<vvars, rvars, xvars, pvars, avars>>
    \/ ClassifyFixed(1) /\ UNCHANGED <<vvars, rvars, xvars, pvars, avars>>
    \/ Check(1) /\ UNCHANGED <<vvars, rvars, xvars, pvars, avars>>
    \/ Create(1) /\ UNCHANGED <<vvars, rvars, xvars, pvars, avars>>
    \/ Finish(1) /\ UNCHANGED <<vvars, rvars, xvars, pvars, avars>>
    \/ Abort(1) /\ UNCHANGED <<vvars, rvars, xvars, pvars, avars>>

SpecResume == InitResume /\ [][NextResume]_vars

-----------------------------------------------------------------------------
(* resolve_entities.  An entity is its name (a sequence of characters); the *)
(* similarity matrix holds cosine similarities in hundredths.               *)

\* entities in a pool at most
MaxEntities == 3

\* similarity_threshold = 0.85
SimilarityThreshold == 85

\* the similarities two different names may have: below and at the threshold
SimValues == {84, 85}

NameDrDotChen == <<"D","r","."," ","C","h","e","n">>
NameDrChenNoDot == <<"D","r"," ","C","h","e","n">>
NameChenLower == <<"c","h","e","n">>
NameChenUpper == <<"C","h","e","n">>

NamePool == { NameDrDotChen, NameDrChenNoDot, NameChenLower, NameChenUpper }

\* the entity lists resolve_entities is called with
EntityLists == UNION { [1 .. n -> NamePool] : n \in 0 .. MaxEntities }

\* set(names)
NameSet(es) == { es[k] : k \in DOMAIN es }

\* list(set(names)): the distinct names in any order
Orders(S) ==
    { f \in [1 .. Cardinality(S) -> S] : \A a, b \in DOMAIN f : f[a] = f[b] => a = b }

\* cosine_similarity(embeddings): symmetric, 1.0 on the diagonal
SimMatrices(n) ==
    LET pairs == { {a, b} : a, b \in 1 .. n } \ { {a} : a \in 1 .. n }
    IN  { [p \in (1 .. n) \X (1 .. n) |-> IF p[1] = p[2] THEN 100 ELSE f[{p[1], p[2]}]]
            : f \in [pairs -> SimValues] }

\* {name: name for name in names}
IdentityMap(es) == [x \in NameSet(es) |-> x]

\* canonical_map[k] = v
Put(map, k, v) == [x \in DOMAIN map \cup {k} |-> IF x = k THEN v ELSE map[x]]

\* a change of canonical that leaves the entries made so far as they are
KeepEntries(map, old_canonical, new_canonical) == map

\* a change of canonical that rewrites the entry of the old canonical only
RemapCanonicalOnly(map, old_canonical, new_canonical) ==
    [x \in DOMAIN map |-> IF x = old_canonical THEN new_canonical ELSE map[x]]

\* lines 165-167: every entry mapped to the old canonical is mapped to the new one
Remap(map, old_canonical, new_canonical) ==
    [x \in DOMAIN map |-> IF map[x] = old_canonical THEN new_canonical ELSE map[x]]

\* canonical_map.get(name, name)
GetOrSelf(map, name) == IF name \in DOMAIN map THEN map[name] ELSE name

\* lines 172-190: the deduplicated list, each entry with the names merged into it
RECURSIVE BuildFrom(_, _, _, _)
BuildFrom(es, map, k, acc) ==
    IF k > Len(es) THEN acc
    ELSE LET canonical_name == GetOrSelf(map, es[k])
         IN  IF \A q \in DOMAIN acc : acc[q].name # canonical_name
             THEN BuildFrom(es, map, k + 1,
                            Append(acc, [name |-> canonical_name,
                                         original_names |-> << es[k] >>]))
             ELSE LET q == CHOOSE q \in DOMAIN acc : acc[q].name = canonical_name
                  IN  BuildFrom(es, map, k + 1,
                        IF \E o \in DOMAIN acc[q].original_names :
                               acc[q].original_names[o] = es[k]
                        THEN acc
                        ELSE [acc EXCEPT ![q].original_names = Append(@, es[k])])

BuildResolved(es, map) == BuildFrom(es, map, 1, << >>)

\* a short circuit that builds the deduplicated list all the same
Deduplicated(es) == BuildResolved(es, [x \in NameSet(es) |-> x])

\* the input list as it is returned by the short circuits: the entities as
\* they came, without original_names
Unresolved(es) == [k \in DOMAIN es |-> [name |-> es[k]]]

\* lines 122-138: the short circuits, the model handle, the embeddings
ResolveBegin ==
    /\ rpc = "call"
    /\ IF Len(entities) < 2
       THEN /\ canonical_map' = IdentityMap(entities)
            /\ resolved_entities' = Unresolved(entities)
            /\ rpc' = "done"
            /\ UNCHANGED <<unique_names, sim, embedding_model, embed_calls, ri>>
       ELSE /\ embedding_model' = "loaded"
            /\ \E order \in Orders(NameSet(entities)) :
                  /\ unique_names' = order
                  /\ IF Len(order) < 2
                     THEN /\ canonical_map' = IdentityMap(entities)
                          /\ resolved_entities' = Unresolved(entities)
                          /\ rpc' = "done"
                          /\ UNCHANGED <<sim, embed_calls, ri>>
                     ELSE /\ embed_calls' = embed_calls + 1
                          /\ sim' \in SimMatrices(Len(order))
                          /\ canonical_map' = << >>
                          /\ ri' = 1
                          /\ rpc' = "outer"
                          /\ UNCHANGED resolved_entities
    /\ UNCHANGED <<entities, processed, rj, canonical>>

\* line 135: model.encode raises (timeout, transport or model error); nothing
\* in resolve_entities handles it
EmbeddingRaises ==
    /\ rpc = "call"
    /\ Len(entities) >= 2
    /\ Cardinality(NameSet(entities)) >= 2
    /\ embedding_model' = "loaded"
    /\ embed_calls' = embed_calls + 1
    /\ rpc' = "raised"
    /\ UNCHANGED <<entities, unique_names, sim, canonical_map, processed, ri, rj,
                   canonical, resolved_entities>>

\* lines 145-152: the next name not yet in a cluster seeds one
OuterStep ==
    /\ rpc = "outer"
    /\ ri <= Len(unique_names)
    /\ LET name_i == unique_names[ri]
       IN  IF name_i \in processed
           THEN /\ ri' = ri + 1
                /\ UNCHANGED <<rpc, canonical, canonical_map, processed, rj>>
           ELSE /\ canonical' = name_i
                /\ canonical_map' = Put(canonical_map, name_i, name_i)
                /\ processed' = processed \cup {name_i}
                /\ rj' = 1
                /\ rpc' = "inner"
                /\ UNCHANGED ri
    /\ UNCHANGED <<entities, unique_names, sim, resolved_entities, embedding_model,
                   embed_calls>>

\* lines 155-170: one name is compared with the seed of the cluster
InnerStep ==
    /\ rpc = "inner"
    /\ rj <= Len(unique_names)
    /\ LET name_j == unique_names[rj]
       IN  IF name_j \notin processed /\ sim[<<ri, rj>>] >= SimilarityThreshold
           THEN LET shorter == Len(name_j) < Len(canonical)
                    new_canonical == IF shorter THEN name_j ELSE canonical
                    remapped == IF shorter
                                THEN Remap(canonical_map, canonical, name_j)
                                ELSE canonical_map
                IN  /\ canonical' = new_canonical
                    /\ canonical_map' = Put(remapped, name_j, new_canonical)
                    /\ processed' = processed \cup {name_j}
           ELSE UNCHANGED <<canonical, canonical_map, processed>>
    /\ rj' = rj + 1
    /\ UNCHANGED <<rpc, ri, entities, unique_names, sim, resolved_entities,
                   embedding_model, embed_calls>>

\* the inner loop is over
InnerEnd ==
    /\ rpc = "inner"
    /\ rj > Len(unique_names)
    /\ ri' = ri + 1
    /\ rpc' = "outer"
    /\ UNCHANGED <<rj, canonical, canonical_map, processed, entities, unique_names, sim,
                   resolved_entities, embedding_model, embed_calls>>

\* lines 172-192: the outer loop is over, the entity list is built and returned
ResolveEnd ==
    /\ rpc = "outer"
    /\ ri > Len(unique_names)
    /\ resolved_entities' = BuildResolved(entities, canonical_map)
    /\ rpc' = "done"
    /\ UNCHANGED <<ri, rj, canonical, canonical_map, processed, entities, unique_names,
                   sim, embedding_model, embed_calls>>

-----------------------------------------------------------------------------
(* SpecResolve: one call of resolve_entities on every entity list *)

InitResolve ==
    /\ rpc = "call"
    /\ entities \in EntityLists
    /\ unique_names = << >>
    /\ sim = << >>
    /\ canonical_map = << >>
    /\ processed = {}
    /\ ri = 0
    /\ rj = 0
    /\ canonical = << >>
    /\ resolved_entities = << >>
    /\ embedding_model = "None"
    /\ embed_calls = 0
    /\ relates_to = {}
    /\ llm = << >>
    /\ ProcessesIdle
    /\ ParserOff
    /\ ApiOff
    /\ CorrectorOff
    /\ ExtractOff

NextResolve ==
    \/ ResolveBegin /\ UNCHANGED <<vvars, store, locals, xvars, pvars, avars>>
    \/ EmbeddingRaises /\ UNCHANGED <<vvars, store, locals, xvars, pvars, avars>>
    \/ OuterStep /\ UNCHANGED <<vvars, store, locals, xvars, pvars, avars>>
    \/ InnerStep /\ UNCHANGED <<vvars, store, locals, xvars, pvars, avars>>
    \/ InnerEnd /\ UNCHANGED <<vvars, store, locals, xvars, pvars, avars>>
    \/ ResolveEnd /\ UNCHANGED <<vvars, store, locals, xvars, pvars, avars>>

SpecResolve == InitResolve /\ [][NextResolve]_vars

-----------------------------------------------------------------------------
(* extract_all and resolve_extraction_result.  Each part of a conversation's *)
(* extraction result is drawn at the step that first reads it.               *)

\* conversations in a batch
MaxConversations == 2

\* entities of one kind in an extraction result at most
MaxPool == 2

\* the entity lists of an extraction result
PoolLists == UNION { [1 .. n -> NamePool] : n \in 0 .. MaxPool }

\* the names a relationship endpoint may carry: entity names and a name that
\* no entity of the result has
EndpointNames == NamePool \cup {NamePatient}

\* the relationship lists of an extraction result
RelationshipLists ==
    {<< >>} \cup { << [from |-> a, to |-> b] >> : a, b \in EndpointNames }

\* the call resolve_entities(es): fresh locals
ResolverCall(es) ==
    /\ rpc' = "call"
    /\ entities' = es
    /\ unique_names' = << >>
    /\ sim' = << >>
    /\ canonical_map' = << >>
    /\ processed' = {}
    /\ ri' = 0
    /\ rj' = 0
    /\ canonical' = << >>
    /\ resolved_entities' = << >>

\* the locals of resolve_extraction_result and of the resolve_entities calls
\* it made are gone when the iteration of extract_all ends
ResultLocalsCleared ==
    /\ rpc' = "off"
    /\ entities' = << >>
    /\ unique_names' = << >>
    /\ sim' = << >>
    /\ canonical_map' = << >>
    /\ processed' = {}
    /\ ri' = 0
    /\ rj' = 0
    /\ canonical' = << >>
    /\ resolved_entities' = << >>
    /\ relationships' = << >>
    /\ clinical_map' = << >>
    /\ resolved_clinical' = << >>
    /\ semantic_map' = << >>
    /\ resolved_semantic' = << >>
    /\ full_map' = << >>
    /\ resolved_relationships' = << >>

\* {**clinical_map, **semantic_map}: the semantic entry wins
Merge(cm, sm) ==
    [x \in DOMAIN cm \cup DOMAIN sm |-> IF x \in DOMAIN sm THEN sm[x] ELSE cm[x]]

\* a rewrite of the 'from' endpoint only
RewriteFromOnly(rel, map) == [rel EXCEPT !.from = GetOrSelf(map, rel.from)]

\* lines 215-222: one relationship with both endpoints looked up in full_map
RewriteRel(rel, map) ==
    [rel EXCEPT !.from = GetOrSelf(map, rel.from), !.to = GetOrSelf(map, rel.to)]

\* extract_all, lines 446-459: the driver, the embedding model loaded up front
Preload ==
    /\ xpc = "start"
    /\ embedding_model' = "loaded"
    /\ conv' = 1
    /\ xpc' = "batch"
    /\ UNCHANGED <<rpc, entities, unique_names, sim, canonical_map, processed, ri, rj,
                   canonical, resolved_entities, embed_calls>>
    /\ UNCHANGED <<stored, relationships, clinical_map, resolved_clinical, semantic_map,
                   resolved_semantic, full_map, resolved_relationships>>

\* extract_all, lines 469-471 and 487-489: extract_entities_llm returned None
ExtractionFails ==
    /\ xpc = "batch"
    /\ conv <= MaxConversations
    /\ conv' = conv + 1
    /\ UNCHANGED <<rvars, xpc, stored, relationships, clinical_map, resolved_clinical,
                   semantic_map, resolved_semantic, full_map, resolved_relationships>>

\* lines 469-474 and 200-205: a result was extracted; its clinical entities go
\* to resolve_entities
ResolveClinical ==
    /\ xpc = "batch"
    /\ conv <= MaxConversations
    /\ \E clinical_entities \in PoolLists : ResolverCall(clinical_entities)
    /\ xpc' = "clinical"
    /\ UNCHANGED <<embedding_model, embed_calls>>
    /\ UNCHANGED <<conv, stored, relationships, clinical_map, resolved_clinical,
                   semantic_map, resolved_semantic, full_map, resolved_relationships>>

\* lines 205-208: the clinical call returned; the semantic entities go to
\* resolve_entities
ResolveSemantic ==
    /\ xpc = "clinical"
    /\ rpc = "done"
    /\ clinical_map' = canonical_map
    /\ resolved_clinical' = resolved_entities
    /\ \E semantic_entities \in PoolLists : ResolverCall(semantic_entities)
    /\ xpc' = "semantic"
    /\ UNCHANGED <<embedding_model, embed_calls>>
    /\ UNCHANGED <<conv, stored, relationships, semantic_map, resolved_semantic,
                   full_map, resolved_relationships>>

\* lines 208-240: the semantic call returned; the maps are combined and every
\* relationship endpoint is looked up
RewriteRelationships ==
    /\ xpc = "semantic"
    /\ rpc = "done"
    /\ semantic_map' = canonical_map
    /\ resolved_semantic' = resolved_entities
    /\ full_map' = Merge(clinical_map, canonical_map)
    /\ \E rels \in RelationshipLists :
          /\ relationships' = rels
          /\ resolved_relationships' =
                [k \in DOMAIN rels |-> RewriteRel(rels[k], Merge(clinical_map, canonical_map))]
    /\ xpc' = "resolved"
    /\ UNCHANGED <<rvars, conv, stored, clinical_map, resolved_clinical>>

\* extract_all, lines 475-486: store_in_neo4j, then the next conversation
StoreResult ==
    /\ xpc = "resolved"
    /\ stored' = stored + 1
    /\ conv' = conv + 1
    /\ ResultLocalsCleared
    /\ xpc' = "batch"
    /\ UNCHANGED <<embedding_model, embed_calls>>

\* the exception of model.encode leaves resolve_entities, then
\* resolve_extraction_result (lines 204-208) and extract_all (lines 466-489):
\* none of them has a handler
ExceptionPropagates ==
    /\ xpc \in {"clinical", "semantic"}
    /\ rpc = "raised"
    /\ xpc' = "aborted"
    /\ UNCHANGED <<rvars, conv, stored, relationships, clinical_map, resolved_clinical,
                   semantic_map, resolved_semantic, full_map, resolved_relationships>>

\* extract_all, lines 490-end: the batch is over, the summary is printed
BatchEnd ==
    /\ xpc = "batch"
    /\ conv > MaxConversations
    /\ xpc' = "finished"
    /\ UNCHANGED <<rvars, conv, stored, relationships, clinical_map, resolved_clinical,
                   semantic_map, resolved_semantic, full_map, resolved_relationships>>

-----------------------------------------------------------------------------
(* SpecExtract: extract_all over a batch of conversations *)

InitExtract ==
    /\ xpc = "start"
    /\ conv = 0
    /\ stored = 0
    /\ relationships = << >>
    /\ clinical_map = << >>
    /\ resolved_clinical = << >>
    /\ semantic_map = << >>
    /\ resolved_semantic = << >>
    /\ full_map = << >>
    /\ resolved_relationships = << >>
    /\ ResolverOff
    /\ relates_to = {}
    /\ llm = << >>
    /\ ProcessesIdle
    /\ ParserOff
    /\ ApiOff
    /\ CorrectorOff

NextExtract ==
    \/ Preload /\ UNCHANGED <<vvars, store, locals, pvars, avars>>
    \/ ExtractionFails /\ UNCHANGED <<vvars, store, locals, pvars, avars>>
    \/ ResolveClinical /\ UNCHANGED <<vvars, store, locals, pvars, avars>>
    \/ ResolveBegin /\ UNCHANGED <<vvars, store, locals, xvars, pvars, avars>>
    \/ EmbeddingRaises /\ UNCHANGED <<vvars, store, locals, xvars, pvars, avars>>
    \/ OuterStep /\ UNCHANGED <<vvars, store, locals, xvars, pvars, avars>>
    \/ InnerStep /\ UNCHANGED <<vvars, store, locals, xvars, pvars, avars>>
    \/ InnerEnd /\ UNCHANGED <<vvars, store, locals, xvars, pvars, avars>>
    \/ ResolveEnd /\ UNCHANGED <<vvars, store, locals, xvars, pvars, avars>>
    \/ ResolveSemantic /\ UNCHANGED <<vvars, store, locals, pvars, avars>>
    \/ RewriteRelationships /\ UNCHANGED <<vvars, store, locals, pvars, avars>>
    \/ StoreResult /\ UNCHANGED <<vvars, store, locals, pvars, avars>>
    \/ ExceptionPropagates /\ UNCHANGED <<vvars, store, locals, pvars, avars>>
    \/ BatchEnd /\ UNCHANGED <<vvars, store, locals, pvars, avars>>

SpecExtract == InitExtract /\ [][NextExtract]_vars

-----------------------------------------------------------------------------
(* SpecApi: requests to POST /reclassify (src/api_server.py), one after the *)
(* other, against a store whose classifier answers the same for a relation  *)
(* whenever it is asked.  The handler has no await between its store and    *)
(* generation calls, so a request is served to its end before the next.     *)

MaxRequests == 2

\* lines 430-438: UNCERTAIN unless the status is 200 and a vocabulary word
\* occurs in the response; the first one in list order wins; any exception
\* gives UNCERTAIN
ApiRelType(resp) ==
    IF resp.kind = "ok" /\ HasType(AllTokens(resp.lines))
    THEN FirstType(AllTokens(resp.lines))
    ELSE "UNCERTAIN"

InitApi ==
    /\ relates_to \in InitialRelations
    /\ llm \in [{ g.rel_id : g \in relates_to } -> Responses]
    /\ ProcessesIdle
    /\ ApiOff
    /\ ParserOff
    /\ CorrectorOff
    /\ ResolverOff
    /\ ExtractOff

\* lines 329-408: the request arrives, the RELATES_TO rows are read; with no
\* row the handler returns at once
ApiRequest ==
    /\ apc = "idle"
    /\ requests < MaxRequests
    /\ requests' = requests + 1
    /\ api_edges' = get_all_relates_to_edges(relates_to)
    /\ api_idx' = 1
    /\ api_stats' = ZeroStats
    /\ created' = 0
    /\ apc' = IF relates_to = {} THEN "idle" ELSE "loop"
    /\ UNCHANGED <<vvars, store, locals, rvars, xvars, pvars>>

\* lines 410-454: one pass of the loop: the classification, the count, and
\* for every type but UNCERTAIN the creation query from from_id to to_id
ApiEdge ==
    /\ apc = "loop"
    /\ api_idx <= Len(api_edges)
    /\ LET edge == api_edges[api_idx]
           t == ApiRelType(llm[edge.rel_id])
       IN  /\ api_stats' = [api_stats EXCEPT ![t] = @ + 1]
           /\ IF t # "UNCERTAIN"
              THEN /\ typed' = create_typed_edge(typed, edge.from_id, edge.to_id, t, edge.fact)
                   /\ created' = created + 1
              ELSE UNCHANGED <<typed, created>>
    /\ api_idx' = api_idx + 1
    /\ UNCHANGED <<apc, api_edges, requests, relates_to, nodes>>
    /\ UNCHANGED <<vvars, locals, rvars, xvars, pvars>>

\* lines 456-464: the loop is over, the counts are returned
ApiReturn ==
    /\ apc = "loop"
    /\ api_idx > Len(api_edges)
    /\ apc' = "idle"
    /\ UNCHANGED <<api_edges, api_idx, api_stats, created, requests>>
    /\ UNCHANGED <<vvars, store, locals, rvars, xvars, pvars>>

NextApi ==
    \/ ApiRequest
    \/ ApiEdge
    \/ ApiReturn

SpecApi == InitApi /\ [][NextApi]_vars

-----------------------------------------------------------------------------
(* SpecVanish: one run of reclassify_all while another client of the store  *)
(* deletes an entity.  The run works on the rows it read at its start       *)
(* (lines 473-474), whose ids are matched again by the creation query.      *)

\* the edges of bag tb that do not touch entity n
WithoutNode(tb, n) ==
    [e \in { d \in BagToSet(tb) : d.source_id # n /\ d.target_id # n } |-> tb[e]]

\* an entity is deleted with its relationships (a node cannot be deleted
\* while it has any); at most one entity vanishes
EntityVanishes(n) ==
    /\ nodes = EntityIds
    /\ n \in nodes
    /\ nodes' = nodes \ {n}
    /\ relates_to' = { g \in relates_to : g.from_id # n /\ g.to_id # n }
    /\ typed' = WithoutNode(typed, n)
    /\ UNCHANGED <<vvars, locals, rvars, xvars, pvars, avars>>

InitVanish ==
    /\ relates_to \in InitialRelations
    /\ llm = << >>
    /\ ProcessesIdle
    /\ ApiOff
    /\ ParserOff
    /\ CorrectorOff
    /\ ResolverOff
    /\ ExtractOff

NextVanish ==
    \/ RaceStart(1) /\ UNCHANGED <<vvars, rvars, xvars, pvars, avars>>
    \/ Classify(1) /\ UNCHANGED <<vvars, rvars, xvars, pvars, avars>>
    \/ Check(1) /\ UNCHANGED <<vvars, rvars, xvars, pvars, avars>>
    \/ Create(1) /\ UNCHANGED <<vvars, rvars, xvars, pvars, avars>>
    \/ Finish(1) /\ UNCHANGED <<vvars, rvars, xvars, pvars, avars>>
    \/ \E n \in EntityIds : EntityVanishes(n)

SpecVanish == InitVanish /\ [][NextVanish]_vars

-----------------------------------------------------------------------------
(* SpecLive: one run of reclassify_all that is not interrupted.  The run is *)
(* a sequential loop whose store calls return and whose generation call has *)
(* a timeout (line 385), so the step it is at is eventually taken.          *)

InitLive ==
    /\ relates_to \in InitialRelations
    /\ llm = << >>
    /\ ProcessesIdle
    /\ ApiOff
    /\ ParserOff
    /\ CorrectorOff
    /\ ResolverOff
    /\ ExtractOff

NextLive ==
    \/ RaceStart(1) /\ UNCHANGED <<vvars, rvars, xvars, pvars, avars>>
    \/ Classify(1) /\ UNCHANGED <<vvars, rvars, xvars, pvars, avars>>
    \/ Check(1) /\ UNCHANGED <<vvars, rvars, xvars, pvars, avars>>
    \/ Create(1) /\ UNCHANGED <<vvars, rvars, xvars, pvars, avars>>
    \/ Finish(1) /\ UNCHANGED <<vvars, rvars, xvars, pvars, avars>>

SpecLive == InitLive /\ [][NextLive]_vars /\ WF_vars(NextLive)

-----------------------------------------------------------------------------
(* Properties *)

\* the keys (type, source_id, target_id) of the typed edges in the store
TypedKeys == { <<e.type, e.source_id, e.target_id>> : e \in BagToSet(typed) }

KeyCount(k) == CountTyped(typed, k[2], k[3], k[1])

\* C1: validate_and_correct is idempotent: applied to its own result (with the
\* same from_type and to_type) it returns that result again.
C1_Idempotent == vpc = "twice" => vout2 = vout

\* the direction contracts of the five directed types
SatisfiesContract(t, source_type, target_type) ==
    CASE t = "TREATS" -> source_type = "PROVIDER" /\ target_type \in {"PATIENT", "PERSON"}
      [] t = "PRESCRIBED" -> source_type = "PROVIDER" /\ target_type = "MEDICATION"
      [] t = "TAKES" -> source_type \in {"PATIENT", "PERSON"} /\ target_type = "MEDICATION"
      [] t = "WORKS_AT" -> source_type \in {"PERSON", "PROVIDER"} /\ target_type = "ORGANIZATION"
      [] t = "DIAGNOSED_WITH" -> source_type = "PATIENT" /\ target_type \in {"CONDITION", "ASSESSMENT"}
      [] OTHER -> TRUE

\* C2: whenever validate_and_correct returns TREATS, PRESCRIBED, TAKES, WORKS_AT
\* or DIAGNOSED_WITH, the effective source and target types under the returned
\* reverse flag satisfy that type's direction contract.
C2_ResultSatisfiesContract ==
    vpc = "once" =>
        SatisfiesContract(vout.t,
                          EffectiveSource(vout.r, vin.from_type, vin.to_type),
                          EffectiveTarget(vout.r, vin.from_type, vin.to_type))

\* an existence check that finds the edge: the run counts it as skipped and
\* the store is left as it was
SkipCreatesNothing ==
    \A r \in Runs :
        (pc[r] = "check"
         /\ check_existing_typed_edge(typed, source_id[r], target_id[r], rel_type[r])
         /\ pc'[r] # "check")
        => (\/ (skipped'[r] = skipped[r] + 1 /\ typed' = typed /\ pc'[r] = "loop")
            \/ pc'[r] = "idle")

\* C3: over sequential runs of reclassify_all, from a store without typed
\* edges and whatever the classifier answers, every (type, source_id,
\* target_id) has at most one typed edge; a run whose existence check finds
\* the edge counts it as skipped and creates nothing.
C3_OneEdgePerKey ==
    /\ [](\A k \in TypedKeys : KeyCount(k) <= 1)
    /\ [][SkipCreatesNothing]_vars

\* a second complete run found an edge of the first and skipped it
C3_Witness ==
    /\ pc[1] = "done"
    /\ started[1] = 2
    /\ aborts = 0
    /\ skipped[1] >= 1
    /\ typed # EmptyBag

\* C4: the existence check and the creation are separate steps, so interleaved
\* runs can each pass the check for a key before the other creates it; a run
\* never duplicates its own edge, so a key has at most as many typed edges as
\* runs have started, and a second edge needs a second run.
C4_AtMostOnePerRun ==
    \A k \in TypedKeys : KeyCount(k) <= Cardinality({ r \in Runs : started[r] > 0 })

\* both runs passed the existence check for the same key before either created
\* it, and both created it: two typed edges with one (type, source_id, target_id)
C4_Duplicate ==
    \E k \in TypedKeys :
        /\ KeyCount(k) = 2
        /\ \A r \in Runs : NewEdgesCreated(r) >= 1
        /\ \A r \in Runs : skipped[r] = 0

\* the generic relation a run is working on, as the store holds it
CurrentRelation(r) == CHOOSE g \in relates_to : g.rel_id = edges[r][idx[r]].rel_id

\* the typed edge the claim describes for run r at its creation step
ExpectedEdge(r) ==
    LET g == CurrentRelation(r)
    IN  [type      |-> rel_type[r],
         source_id |-> IF should_reverse[r] THEN g.to_id ELSE g.from_id,
         target_id |-> IF should_reverse[r] THEN g.from_id ELSE g.to_id,
         fact      |-> g.fact,
         source    |-> "reclassified"]

\* C5: every step that changes the typed edges is the creation step of a run
\* and adds exactly one edge: type(to_id -> from_id) when the corrected
\* reverse flag is set, type(from_id -> to_id) otherwise, with the relation's
\* fact text and the provenance tag 'reclassified'.
C5_CreatedEdge ==
    [][typed' # typed =>
          \E r \in Runs : /\ pc[r] = "create"
                          /\ typed' = typed (+) SetToBag({ExpectedEdge(r)})]_vars

\* a reversed edge has been created: it runs from a relation's to_id to its from_id
C5_Witness ==
    \E e \in BagToSet(typed), g \in relates_to :
        /\ g.from_id # g.to_id
        /\ e.source_id = g.to_id /\ e.target_id = g.from_id
        /\ e.fact = g.fact /\ e.source = "reclassified"
        /\ ~ \E h \in relates_to : h.from_id = g.to_id /\ h.to_id = g.from_id

\* C6: a relationship whose final type is UNCERTAIN reaches neither the
\* existence check nor the creation, and no typed edge of type UNCERTAIN exists.
C6_UncertainNeverWritten ==
    /\ \A r \in Runs : pc[r] \in {"check", "create"} => rel_type[r] # "UNCERTAIN"
    /\ \A e \in BagToSet(typed) : e.type # "UNCERTAIN"

\* a run classified a relationship as UNCERTAIN and another one not
C6_Witness ==
    /\ pc[1] = "done"
    /\ stats[1]["UNCERTAIN"] >= 1
    /\ NewEdgesCreated(1) >= 1

\* C7: no step of any run, complete or cut short, changes the generic
\* relations: their set, endpoints and fact texts stay what they were.
C7_GenericUntouched == [][relates_to' = relates_to]_vars

\* typed edges were created next to the generic relations, one run was cut short
C7_Witness ==
    /\ aborts >= 1
    /\ pc[1] = "done"
    /\ typed # EmptyBag
    /\ relates_to # {}

\* C8: when a run is cut short at any point and reclassify_all then runs to
\* completion with the same classification results, the typed edges are those
\* of a single uninterrupted run.
C8_ResumeEqualsSingleRun ==
    pc[1] = "done" => typed = UninterruptedRun(relates_to, llm)

\* the completed run followed a run cut short: it skipped what that run had
\* created and created what was missing
C8_Witness ==
    /\ pc[1] = "done"
    /\ aborts >= 1
    /\ skipped[1] >= 1
    /\ NewEdgesCreated(1) >= 1

\* C9: after any number of sequential runs, the typed edges created by
\* reclassification are at most as many as the generic relations.
C9_TypedAtMostGeneric == BagCardinality(typed) <= Cardinality(relates_to)

\* the index pairs of distinct names whose similarity reaches the threshold
SimilarPairs ==
    { p \in DOMAIN sim : p[1] # p[2] /\ sim[p] >= SimilarityThreshold }

\* C10: cluster closure: any two distinct names whose similarity is at least
\* the threshold have the same canonical name in the returned map.
C10_ClusterClosure ==
    rpc = "done" =>
        \A p \in SimilarPairs :
            canonical_map[unique_names[p[1]]] = canonical_map[unique_names[p[2]]]

\* the input of the corrector probe, by position
ProposedIs(t, r, from_type, to_type) ==
    /\ vin.rel_type = t /\ vin.should_reverse = r
    /\ vin.from_type = from_type /\ vin.to_type = to_type

\* the effective types of the probe's input under the proposed reverse flag
ProposedSource == EffectiveSource(vin.should_reverse, vin.from_type, vin.to_type)
ProposedTarget == EffectiveTarget(vin.should_reverse, vin.from_type, vin.to_type)

\* C16: a proposed TREATS whose effective target type is MEDICATION comes back
\* as TAKES, with the reverse flag set so that the non-medication endpoint is
\* the source; (TREATS, False, PATIENT, MEDICATION) gives (TAKES, False).
C16_TreatsMedicationBecomesTakes ==
    (vpc = "once" /\ vin.rel_type = "TREATS" /\ ProposedTarget = "MEDICATION")
    => /\ vout.t = "TAKES"
       /\ (vin.from_type # "MEDICATION" \/ vin.to_type # "MEDICATION")
          => EffectiveSource(vout.r, vin.from_type, vin.to_type) # "MEDICATION"

\* the proposals whose endpoints are in the swapped order of their contract
SwappedOrder ==
    \/ vin.rel_type \in {"PRESCRIBED", "TAKES"} /\ ProposedSource = "MEDICATION"
    \/ /\ vin.rel_type = "WORKS_AT"
       /\ ProposedSource = "ORGANIZATION" /\ ProposedTarget # "ORGANIZATION"
    \/ vin.rel_type = "DIAGNOSED_WITH" /\ ProposedSource \in {"CONDITION", "ASSESSMENT"}

\* C17: a proposal in the swapped order of its contract (PRESCRIBED or TAKES
\* from a MEDICATION, WORKS_AT from an ORGANIZATION to something else,
\* DIAGNOSED_WITH from a CONDITION or ASSESSMENT) is repaired by the flip alone:
\* the same type comes back with the reverse flag negated.
C17_SwappedOrderIsFlipped ==
    (vpc = "once" /\ SwappedOrder)
    => vout = [t |-> vin.rel_type, r |-> ~vin.should_reverse]

\* a reversed WORKS_AT from an ORGANIZATION to a CONDITION: the flip of the
\* block's second branch gives CONDITION -> ORGANIZATION
C17_Witness ==
    /\ vpc = "once"
    /\ ProposedIs("WORKS_AT", TRUE, "CONDITION", "ORGANIZATION")
    /\ vout = [t |-> "WORKS_AT", r |-> FALSE]

\* a corrector that evaluates only the rule block of the proposed type
OneBlockOnly(t, r, from_type, to_type) ==
    LET source_type == EffectiveSource(r, from_type, to_type)
        target_type == EffectiveTarget(r, from_type, to_type)
        s0 == [t |-> t, r |-> r]
    IN  CASE t = "TREATS" -> Rule1(s0, source_type, target_type, from_type)
          [] t = "PRESCRIBED" -> Rule2(s0, source_type, target_type)
          [] t = "TAKES" -> Rule3(s0, source_type, target_type)
          [] t = "WORKS_AT" -> Rule4(s0, source_type, target_type)
          [] t = "DIAGNOSED_WITH" -> Rule5(s0, source_type, target_type)
          [] t = "SUPPORTS" -> Rule6(s0, source_type, target_type)
          [] t = "FAMILY_OF" -> Rule7(s0, source_type, target_type)
          [] OTHER -> s0

\* C20: exactly one rule block is applied per call, the one selected by the
\* proposed type; a type produced by retyping is returned as it is, so the
\* result is that of evaluating only the table row of the proposed type.
C20_OneBlockPerCall ==
    vpc = "once" =>
        vout = OneBlockOnly(vin.rel_type, vin.should_reverse, vin.from_type, vin.to_type)

\* the relationship run r is about to classify got no answer from the
\* text-generation call: timeout, non-200 status or another exception
GenerationFails(r) ==
    /\ pc[r] = "loop"
    /\ idx[r] <= Len(edges[r])
    /\ llm[edges[r][idx[r]].rel_id].kind # "ok"

\* the relationships a run has counted so far
TotalClassified(r) == SumCopies(stats[r], DOMAIN stats[r])

\* its step counts the relationship as UNCERTAIN with direction KEEP, writes
\* nothing and moves to the next relationship
FailureIsKept ==
    \A r \in Runs :
        (GenerationFails(r) /\ pc'[r] # "idle")
        => /\ stats'[r] = [stats[r] EXCEPT !["UNCERTAIN"] = @ + 1]
           /\ reversed_count'[r] = reversed_count[r]
           /\ typed' = typed
           /\ pc'[r] = "loop" /\ idx'[r] = idx[r] + 1

\* C18: a failed text-generation call for one relationship gives (UNCERTAIN,
\* KEEP) for it: the relationship never reaches the existence check or the
\* creation, no typed edge is written in its step, and the run goes on: when
\* it is done it has classified every relationship of its list.
C18_GenerationFailureDegrades ==
    /\ [][FailureIsKept]_vars
    /\ [](\A r \in Runs :
            /\ pc[r] \in {"check", "create"} => llm[edges[r][idx[r]].rel_id].kind = "ok"
            /\ pc[r] = "done" => TotalClassified(r) = Len(edges[r]))

\* the call for the first relationship timed out; the run went on and created
\* the typed edge of the second
C18_Witness ==
    /\ pc[1] = "done"
    /\ aborts = 0
    /\ Len(edges[1]) = 2
    /\ llm[1].kind = "timeout" /\ llm[2].kind = "ok"
    /\ stats[1]["UNCERTAIN"] = 1
    /\ BagCardinality(typed) = 1

\* the names mapped to the same canonical name as x
MappedLike(x) == { y \in DOMAIN canonical_map : canonical_map[y] = canonical_map[x] }

\* a step of the inner loop that changes the cluster's canonical name moves
\* every entry of the old canonical name to the new one
RetroactiveRemap ==
    (rpc = "inner" /\ canonical' # canonical)
    => \A x \in DOMAIN canonical_map :
          canonical_map[x] = canonical => canonical_map'[x] = canonical'

\* C11: canonical minimality: the canonical name of x is no longer than x or
\* any other name mapped to the same canonical name, in every state of the
\* clustering, for every similarity matrix and processing order; a shorter
\* name joining a cluster takes every earlier member with it, the seed included.
C11_CanonicalMinimality ==
    /\ [](\A x \in DOMAIN canonical_map :
            \A y \in MappedLike(x) : Len(canonical_map[x]) <= Len(y))
    /\ [](rpc = "inner" => canonical_map[unique_names[ri]] = canonical)
    /\ [][RetroactiveRemap]_vars

\* three names in one cluster, each shorter than the one before: the
\* canonical name changed twice and the earlier entries followed
C11_Witness ==
    /\ rpc = "done"
    /\ Len(unique_names) = 3
    /\ Len(unique_names[1]) > Len(unique_names[2])
    /\ Len(unique_names[2]) > Len(unique_names[3])
    /\ \A k \in 1 .. 3 : canonical_map[unique_names[k]] = unique_names[3]

\* C12: the returned name map is total and a fixed point: every name of the
\* input is a key, every canonical name is a key, map[map[x]] = map[x].
C12_TotalFixedPoint ==
    rpc = "done" =>
        /\ \A k \in DOMAIN entities : entities[k] \in DOMAIN canonical_map
        /\ \A x \in DOMAIN canonical_map :
              /\ canonical_map[x] \in DOMAIN canonical_map
              /\ canonical_map[canonical_map[x]] = canonical_map[x]

\* two clusters over three names, one of them with a name that is not its
\* own canonical name
C12_Witness ==
    /\ rpc = "done"
    /\ Cardinality(DOMAIN canonical_map) = 3
    /\ Cardinality({ canonical_map[x] : x \in DOMAIN canonical_map }) = 2
    /\ \E x \in DOMAIN canonical_map : canonical_map[x] # x

FullMapRange == { full_map[x] : x \in DOMAIN full_map }

\* C14: referential integrity: after resolve_extraction_result has rewritten
\* the relationships, the 'from' and the 'to' endpoint of every returned
\* relationship is a value of the combined canonical map.
C14_ReferentialIntegrity ==
    xpc = "resolved" =>
        \A k \in DOMAIN resolved_relationships :
            /\ resolved_relationships[k].from \in FullMapRange
            /\ resolved_relationships[k].to \in FullMapRange

\* the pool of the resolve_entities call has two or more distinct names and
\* every pair of them is similar at or above the threshold
AllSimilar ==
    /\ Len(unique_names) >= 2
    /\ \A p \in DOMAIN sim : sim[p] >= SimilarityThreshold

\* what the lookup in the combined map gives for an endpoint name
Rewritten(name) ==
    IF name \in DOMAIN semantic_map THEN semantic_map[name]
    ELSE IF name \in DOMAIN clinical_map THEN clinical_map[name]
    ELSE name

C19_EmbeddingFailureDoesNotAbort == xpc # "aborted"

\* C21: a proposed PRESCRIBED whose effective source is not MEDICATION keeps
\* its reverse flag and comes back as REFERRED when target and source are
\* PROVIDER, UNCERTAIN when only the target is PROVIDER, otherwise TREATS when
\* the target is PATIENT, otherwise TAKES when the source is PATIENT.
C21_PrescribedBranches ==
    (vpc = "once" /\ vin.rel_type = "PRESCRIBED" /\ ProposedSource # "MEDICATION")
    => /\ vout.r = vin.should_reverse
       /\ IF ProposedTarget = "PROVIDER"
          THEN vout.t = (IF ProposedSource = "PROVIDER" THEN "REFERRED" ELSE "UNCERTAIN")
          ELSE IF ProposedTarget = "PATIENT" THEN vout.t = "TREATS"
          ELSE IF ProposedSource = "PATIENT" THEN vout.t = "TAKES"
          ELSE TRUE

\* the coarse types SUPPORTS and FAMILY_OF do not connect
NotAPerson == {"MEDICATION", "ORGANIZATION"}

\* C22: a proposed SUPPORTS or FAMILY_OF comes back as UNCERTAIN whenever its
\* effective source or target is MEDICATION or ORGANIZATION, and unchanged
\* otherwise.
C22_SupportsFamilyOf ==
    (vpc = "once" /\ vin.rel_type \in {"SUPPORTS", "FAMILY_OF"})
    => IF ProposedSource \in NotAPerson \/ ProposedTarget \in NotAPerson
       THEN vout.t = "UNCERTAIN"
       ELSE vout = [t |-> vin.rel_type, r |-> vin.should_reverse]

\* C23: a proposed TREATS whose effective target is not MEDICATION and whose
\* ends are both not PROVIDER comes back unchanged when the effective source is
\* PATIENT or PERSON, and as UNCERTAIN with the same reverse flag otherwise.
C23_TreatsLeniency ==
    (/\ vpc = "once"
     /\ vin.rel_type = "TREATS"
     /\ ProposedTarget # "MEDICATION"
     /\ ProposedSource # "PROVIDER" /\ ProposedTarget # "PROVIDER")
    => vout = [t |-> IF ProposedSource \in {"PATIENT", "PERSON"} THEN "TREATS"
                     ELSE "UNCERTAIN",
               r |-> vin.should_reverse]

\* a TREATS from a PERSON to a CONDITION was left as proposed
C23_Witness ==
    /\ vpc = "once"
    /\ ProposedIs("TREATS", FALSE, "PERSON", "CONDITION")
    /\ vout = [t |-> "TREATS", r |-> FALSE]

\* C28: the target side of the contract holds for three result types: a
\* returned TAKES has effective target MEDICATION under the returned reverse
\* flag, a returned WORKS_AT has ORGANIZATION, a returned DIAGNOSED_WITH has
\* CONDITION or ASSESSMENT.
C28_TargetSideContract ==
    vpc = "once" =>
        LET target_type == EffectiveTarget(vout.r, vin.from_type, vin.to_type)
        IN  /\ vout.t = "TAKES" => target_type = "MEDICATION"
            /\ vout.t = "WORKS_AT" => target_type = "ORGANIZATION"
            /\ vout.t = "DIAGNOSED_WITH" => target_type \in {"CONDITION", "ASSESSMENT"}

\* a TREATS proposed in reverse between a MEDICATION and a PATIENT came back
\* as TAKES from the PATIENT to the MEDICATION
C28_Witness ==
    /\ vpc = "once"
    /\ ProposedIs("TREATS", TRUE, "MEDICATION", "PATIENT")
    /\ vout = [t |-> "TAKES", r |-> TRUE]

\* the names that both pools resolved, each to a canonical name of its own pool
SharedKeys == DOMAIN clinical_map \cap DOMAIN semantic_map

\* C26: the combined map never quietly keeps one of two conflicting values: a
\* name that both maps hold with different canonical names does not reach the
\* rewriting of the relationships
C26_NoSilentOverwrite ==
    xpc = "resolved" =>
        \A name \in SharedKeys : clinical_map[name] = semantic_map[name]

\* C29: rewriting the endpoints is idempotent: looking the endpoints of the
\* rewritten relationships up in the combined map again changes none of them
C29_RewriteIdempotent ==
    xpc = "resolved" =>
        \A k \in DOMAIN resolved_relationships :
            RewriteRel(resolved_relationships[k], full_map) = resolved_relationships[k]

\* the response has a line that starts with DIRECTION: and contains REVERSE
HasReverseLine(lines) ==
    \E k \in DOMAIN lines : lines[k].head = "DIRECTION" /\ lines[k].reverse

\* C27: the parse of a response is a type of the vocabulary and a boolean; it
\* is UNCERTAIN when no vocabulary word occurs anywhere in the text, and KEEP
\* (should_reverse false) when no DIRECTION line contains REVERSE
C27_ParseDefaults ==
    ppc = "parsed" =>
        /\ parsed.t \in RelTypes
        /\ parsed.r \in BOOLEAN
        /\ (AllTokens(response_text) \cap RelTypes = {} => parsed.t = "UNCERTAIN")
        /\ (~ HasReverseLine(response_text) => parsed.r = FALSE)

\* a text without a vocabulary word whose only line contains REVERSE but is
\* no DIRECTION line: parsed as (UNCERTAIN, KEEP)
C27_Witness ==
    /\ ppc = "parsed"
    /\ response_text = << [head |-> "OTHER", tokens |-> {}, reverse |-> TRUE] >>
    /\ parsed = [t |-> "UNCERTAIN", r |-> FALSE]

\* C30: POST /reclassify keeps the uniqueness of the script: whatever the
\* number of requests served one after the other against the same store, with
\* the classifier answering the same each time, a (type, source_id, target_id)
\* has at most one typed edge
C30_ApiOneEdgePerKey ==
    \A e \in BagToSet(typed) : CountTyped(typed, e.source_id, e.target_id, e.type) <= 1

\* run r is about to create an edge one of whose ends is no longer in the store
EndpointVanished(r) ==
    pc[r] = "create" /\ ~ ({source_id[r], target_id[r]} \subseteq nodes)

\* C25: when an end of the edge no longer resolves to an entity at the
\* creation, that edge is skipped (no edge is written), the run goes on to the
\* next relationship, and the edge is not counted among the summary's new
\* edges created
C25_VanishedEndpointReported ==
    [][\A r \in Runs :
          (EndpointVanished(r) /\ idx'[r] = idx[r] + 1) =>
              /\ typed' = typed
              /\ pc'[r] = "loop"
              /\ NewEdgesCreated(r)' = NewEdgesCreated(r) - 1]_vars

\* the three ways the loop leaves a relationship
EndsUncertain(r) == pc[r] = "loop" /\ stats'[r]["UNCERTAIN"] = stats[r]["UNCERTAIN"] + 1
EndsSkipped(r) == pc[r] = "check" /\ skipped'[r] = skipped[r] + 1
EndsCreated(r) ==
    /\ pc[r] = "create"
    /\ typed' = typed (+) SetToBag({ [type |-> rel_type[r], source_id |-> source_id[r],
                                      target_id |-> target_id[r],
                                      fact |-> edges[r][idx[r]].fact,
                                      source |-> "reclassified"] })

\* the run moves from one relationship of its list to the next only by one of
\* the three outcomes, and leaves its list alone
OneOutcomeEach(r) ==
    /\ pc[r] \in {"loop", "check", "create"} => edges'[r] = edges[r]
    /\ pc[r] \in {"loop", "check", "create"} => idx'[r] \in {idx[r], idx[r] + 1}
    /\ idx'[r] = idx[r] + 1 =>
          /\ idx[r] <= Len(edges[r])
          /\ pc'[r] = "loop"
          /\ EndsUncertain(r) \/ EndsSkipped(r) \/ EndsCreated(r)
    /\ (pc[r] = "loop" /\ pc'[r] = "check") => rel_type'[r] # "UNCERTAIN"

\* the creation is entered only from the existence check of the same type and
\* ids, which found no edge, and nothing is written in between
CreatedAfterCheck(r) ==
    (pc'[r] = "create" /\ pc[r] # "create") =>
        /\ pc[r] = "check"
        /\ ~ check_existing_typed_edge(typed, source_id[r], target_id[r], rel_type[r])
        /\ <<rel_type'[r], source_id'[r], target_id'[r]>> = <<rel_type[r], source_id[r], target_id[r]>>
        /\ typed' = typed

\* C24: every relationship of the run's list is processed exactly once, in list
\* order, and ends as uncertain, created or skipped; a creation follows directly
\* the existence check of the same (type, source_id, target_id) that found no
\* edge; the run ends after the last relationship
C24_RelationshipStateMachine ==
    /\ [][OneOutcomeEach(1) /\ CreatedAfterCheck(1)]_vars
    /\ \A k \in 1 .. MaxRels :
          (pc[1] \in {"loop", "check", "create"} /\ idx[1] = k /\ k <= Len(edges[1]))
              ~> (pc[1] = "loop" /\ idx[1] = k + 1)
    /\ <>(pc[1] = "done")
    /\ [](pc[1] = "done" =>
            /\ idx[1] = Len(edges[1]) + 1
            /\ stats[1]["UNCERTAIN"] + skipped[1] + BagCardinality(typed) = Len(edges[1]))

\* a finished run that created an edge for its first relationship and skipped
\* its second as a duplicate
C24_Witness ==
    /\ pc[1] = "done"
    /\ Len(edges[1]) = 2
    /\ skipped[1] = 1
    /\ BagCardinality(typed) = 1

=============================================================================
